---- MODULE Spec2Model ----
(***************************************************************************)
(* pyclustering: the fork-join substrate of ccore (parallel_for and        *)
(* parallel_for_each of pyclustering/parallel/parallel.hpp, the            *)
(* PARALLEL_IMPLEMENTATION_ASYNC_POOL build without NEGATIVE_STEPS) and    *)
(* the ant colony clustering engine (ant_clustering_mean).                 *)
(*                                                                         *)
(* A call of parallel_for / parallel_for_each is a record of its locals    *)
(* and of the position of the calling thread in it; every std::async       *)
(* worker is an entry of its future_storage.  One action is one step of    *)
(* one thread, so that TLC explores every interleaving of the workers and  *)
(* the calling thread.                                                     *)
(***************************************************************************)
EXTENDS Integers, Sequences, FiniteSets, TLC

\* ------------------------------------------------------------------ bounds

\* std::thread::hardware_concurrency() is drawn from 0..MaxHW.
MaxHW == 3
\* p_start is drawn from 0..MaxStart, p_end from 0..MaxEnd, p_step from 1..MaxStep.
MaxStart == 1
MaxEnd == 12
MaxStep == 2
\* Length of the sequence handed to parallel_for_each: 0..MaxLen.
MaxLen == 5
\* Width in bits of the unsigned TypeIndex (scaled down from 32/64).
IndexBits == 4
\* Width in bits of std::size_t (scaled down from 64; wider than TypeIndex).
SizeBits == 8
\* The per-index invocation counter saturates here (a wrapping unsigned loop
\* may revisit an index for ever).
VisitCap == 2
\* Ranges of the runs in which the task may raise.
ErrEnd == 4
\* A nested run: the outer loop is parallel_for(0, n, 1, body), n in 0..NestEnd,
\* and every body calls parallel_for(0, InnerEnd, 1, leaf).
NestEnd == 2
InnerEnd == 2

\* The ant colony engine: get_iterations() is drawn from -1..MaxIter,
\* get_count_ants() from -1..MaxAnts, get_pheramone_init() from 0..MaxInit (in
\* units of pheromone) and get_ro() from the rates 1/RoDen .. (RoDen-1)/RoDen.
MaxIter == 2
MaxAnts == 2
MaxInit == 1
RoDen == 3
\* The fitness of a clustering without dispersion, in units of pheromone.
FMax == 4
\* The rows of a matrix handed to make_city_distance_matrix, and the length
\* of a row.
MaxDim == 2
\* The number of states of the generator behind std::rand().
RandMod == 8

VARIABLES
    hw,      \* AMOUNT_HARDWARE_THREADS, fixed when the program is loaded
    mode,    \* which kind of run this is: "idle" before the first call
    call,    \* call[c]: the activation record of call c of the substrate
    params,           \* ant_clustering_mean::params
    count_clusters,   \* the argument of process
    epc,              \* where process is: "idle" before the call
    err,              \* the error process failed with
    ph,               \* the pheramone of the run, <<>> before it is made
    ants,             \* std::vector<Ant> of the run
    cur,              \* <<ant, object>> that clustering_by_pheramone draws next
    iteration,        \* the rounds done
    updates,          \* the calls of update_pheramone done
    best,             \* the best clustering so far and its quality
    result,           \* what process returned, <<>> before it returns
    made,             \* the overload that made the distance_matrix, "none" before
    m_matrix,         \* distance_matrix::m_matrix
    rand_state,       \* the state of the generator behind std::rand()
    in_rand           \* in_rand[k]: the state thread k read inside std::rand(),
                      \* -1 outside of it (thread 0 is the one that called process)

pvars == <<hw, mode, call>>

evars == <<params, count_clusters, epc, err, ph, ants, cur, iteration, updates, best, result>>

dvars == <<made, m_matrix>>

rvars == <<rand_state, in_rand>>

vars == <<pvars, evars, dvars, rvars>>

\* ---------------------------------------------------------------- helpers

Abs(a) == IF a < 0 THEN -a ELSE a

Max(a, b) == IF a < b THEN b ELSE a

RECURSIVE Pow2(_)
Pow2(n) == IF n = 0 THEN 1 ELSE 2 * Pow2(n - 1)

\* C++ integer division truncates toward zero.
CDiv(a, b) == IF (a >= 0) = (b > 0) THEN Abs(a) \div Abs(b) ELSE -(Abs(a) \div Abs(b))

\* Arithmetic of TypeIndex: exact for a signed type (no value of the model
\* comes near its limits), modulo 2^IndexBits for an unsigned one.
Wrap(sgn, v) == IF sgn THEN v ELSE v % Pow2(IndexBits)

\* static_cast<std::size_t>(v)
SizeT(v) == v % Pow2(SizeBits)

\* parallel.hpp:56
AmountThreadsBug(h) == IF h > 0 THEN h ELSE 0

AMOUNT_THREADS(h) == IF h > 1 THEN h - 1 ELSE 0

\* The loop conditions: i < end in parallel_for, iter != end in parallel_for_each.
LoopCond(kind, i, e) == IF kind = "for" THEN i < e ELSE i # e

CapThreadsBug(n, T) == IF n > T THEN T ELSE n

\* The cap of amount_threads, parallel.hpp:114-119 and 209-214.
CapThreads(n, T) == IF n > T THEN T ELSE IF n > 0 THEN n - 1 ELSE n

\* parallel.hpp:106-111
IntervalStep(sgn, p_start, p_end, p_step, T) ==
    LET interval_length == Wrap(sgn, p_end - p_start)
        s == CDiv(CDiv(interval_length, p_step), Wrap(sgn, T) + 1)
    IN IF s < p_step THEN p_step ELSE s

\* parallel.hpp:113-119
AmountFor(sgn, p_start, p_end, p_step, T) ==
    LET interval_length == Wrap(sgn, p_end - p_start)
        interval_step == IntervalStep(sgn, p_start, p_end, p_step, T)
    IN CapThreads(SizeT(CDiv(interval_length, interval_step)), T)

\* parallel.hpp:205-206
EachStep(len, T) == Max(len \div (T + 1), 1)

\* parallel.hpp:208-214
AmountEach(len, T) == CapThreads(SizeT(len \div EachStep(len, T)), T)

\* ------------------------------------------------------------------ state

\* Call 0 is the call of the program; call i + 1 is the call made by the body
\* of index i of call 0 in a nested run.
CallIds == 0 .. (NestEnd + 1)

NoOwner == <<>>

\* A std::future<void> of future_storage: "empty" as default-constructed, and
\* from std::async on the state of its thread, which runs [cs, ce) from i.
EmptyFuture == [st |-> "empty", cs |-> 0, ce |-> 0, i |-> 0]

IdleCall ==
    [pc |-> "idle", kind |-> "for", sgn |-> TRUE, body |-> "leaf", owner |-> NoOwner,
     p_start |-> 0, p_end |-> 0, p_step |-> 1,
     interval_step |-> 1, amount_threads |-> 0,
     current_start |-> 0, current_end |-> 0, n |-> 0,
     future_storage |-> <<>>, it |-> 0, g |-> 0,
     exc |-> -1, raised |-> <<>>, cnt |-> <<>>, inlineLog |-> <<>>]

\* The state of a call on entry, up to the construction of future_storage:
\* parallel.hpp:106-125 (parallel_for) and 205-219 (parallel_for_each, with
\* iterators as offsets from p_begin).
EnterCall(kind, sgn, body, owner, p_start, p_end, p_step, interval_step, amount) ==
    [IdleCall EXCEPT !.pc = "dispatch", !.kind = kind, !.sgn = sgn, !.body = body,
                     !.owner = owner, !.p_start = p_start, !.p_end = p_end,
                     !.p_step = p_step, !.interval_step = interval_step,
                     !.amount_threads = amount,
                     !.current_start = p_start,
                     !.current_end = Wrap(sgn, p_start + interval_step),
                     !.future_storage = [k \in 1 .. amount |-> EmptyFuture]]

EnterFor(sgn, body, owner, p_start, p_end, p_step) ==
    EnterCall("for", sgn, body, owner, p_start, p_end, p_step,
              IntervalStep(sgn, p_start, p_end, p_step, AMOUNT_THREADS(hw)),
              AmountFor(sgn, p_start, p_end, p_step, AMOUNT_THREADS(hw)))

EnterEach(body, owner, len) ==
    EnterCall("each", FALSE, body, owner, 0, len, 1,
              EachStep(len, AMOUNT_THREADS(hw)), AmountEach(len, AMOUNT_THREADS(hw)))

\* p_task(i) was invoked once more.
Count(cnt, i) ==
    [j \in DOMAIN cnt \cup {i} |->
        IF j = i THEN (IF i \in DOMAIN cnt THEN (IF cnt[i] < VisitCap THEN cnt[i] + 1 ELSE cnt[i])
                       ELSE 1)
        ELSE cnt[j]]

\* ------------------------------------------------- ant_clustering_mean

\* clustering_data::data: one coordinate per object.
Data == <<0, 2>>

size_of_data == Len(Data)

\* The wrappers of the parameters.
get_ro == params.ro

get_pheramone_init == params.pheramone_init

get_iterationsBug == params.count_ants

get_iterations == params.iterations

get_count_ants == params.count_ants

\* pheramone::pheramone: every entry is initialPheramone.
pheramoneBug(n_data, n_clusters, initialPheramone) ==
    [o \in 1 .. n_data |-> [c \in 1 .. n_clusters |-> initialPheramone - 1]]

pheramone(n_data, n_clusters, initialPheramone) ==
    [o \in 1 .. n_data |-> [c \in 1 .. n_clusters |-> initialPheramone]]

\* Ant::Ant: no object is in any cluster; F is not initialised (scored tells
\* whether calculate_F has set it).
Ant(n_data, n_clusters) ==
    [clustering_data |-> [o \in 1 .. n_data |-> [c \in 1 .. n_clusters |-> FALSE]],
     F |-> 0, scored |-> FALSE]

\* Ant::clear
clearBug(ant) == ant

clear(ant) ==
    [ant EXCEPT !.clustering_data =
        [o \in DOMAIN ant.clustering_data |->
            [c \in DOMAIN ant.clustering_data[o] |-> FALSE]]]

\* get_random_number(max) is std::rand() % max: some number of 0 .. max - 1.
get_random_number(max) == 0 .. (max - 1)

RECURSIVE SumTo(_, _)
SumTo(row, n) == IF n = 0 THEN 0 ELSE row[n] + SumTo(row, n - 1)

\* realize_pheromone: the cluster drawn for object data_num with the random
\* number r: cluster c with probability proportional to ph[data_num][c], and
\* any cluster alike when the row has no weight.
RowTotal(p, data_num) == SumTo(p[data_num], Len(p[data_num]))

realize_pheromone(p, data_num, r) ==
    IF RowTotal(p, data_num) = 0 THEN r + 1
    ELSE CHOOSE c \in 1 .. Len(p[data_num]) :
            SumTo(p[data_num], c - 1) <= r /\ r < SumTo(p[data_num], c)

RECURSIVE SumOver(_, _)
SumOver(S, sq) ==
    IF S = {} THEN 0
    ELSE LET o == CHOOSE x \in S : TRUE
         IN (IF sq THEN Data[o] * Data[o] ELSE Data[o]) + SumOver(S \ {o}, sq)

\* calculate_cluster_centers and calculate_F: the sum over the clusters of the
\* squared distances of their objects to their mean, and F, which falls with
\* it and is FMax without dispersion.
Members(ant, c) == {o \in DOMAIN ant.clustering_data : ant.clustering_data[o][c]}

Dispersion(ant, n_clusters) ==
    LET sse(M) == IF M = {} THEN 0
                  ELSE (Cardinality(M) * SumOver(M, TRUE) - SumOver(M, FALSE) * SumOver(M, FALSE))
                           \div Cardinality(M)
        RECURSIVE tot(_)
        tot(c) == IF c = 0 THEN 0 ELSE sse(Members(ant, c)) + tot(c - 1)
    IN tot(n_clusters)

calculate_F(ant, n_clusters) ==
    [ant EXCEPT !.F = FMax \div (1 + Dispersion(ant, n_clusters)), !.scored = TRUE]

\* update_pheramone: every entry evaporates by (1 - ro) and is kept from
\* falling below 0, then every ant adds its F at (object, its cluster).
Evaporate(v) == (v * (RoDen - get_ro)) \div RoDen

Clamp(v) == IF v < 0 THEN 0 ELSE v

RECURSIVE Reinforcement(_, _, _, _)
Reinforcement(as, a, o, c) ==
    IF a = 0 THEN 0
    ELSE (IF as[a].clustering_data[o][c] THEN as[a].F ELSE 0) + Reinforcement(as, a - 1, o, c)

update_pheramone(p, as) ==
    [o \in DOMAIN p |-> [c \in DOMAIN p[o] |->
        Clamp(Evaporate(p[o][c])) + Reinforcement(as, Len(as), o, c)]]

\* update_best_clustering: the stored best is replaced only by an ant of
\* strictly better quality; among the ants the first of the best ones.
ImprovesBug(ant, b) == b.clusters = <<>> \/ ant.F >= b.F

Improves(ant, b) == b.clusters = <<>> \/ ant.F > b.F

RECURSIVE BestOf(_, _, _)
BestOf(as, a, b) ==
    IF a > Len(as) THEN b
    ELSE BestOf(as, a + 1,
                IF Improves(as[a], b)
                THEN [clusters |-> as[a].clustering_data, F |-> as[a].F] ELSE b)

update_best_clustering(as, b) == BestOf(as, 1, b)

NoBest == [clusters |-> <<>>, F |-> 0]

ValidBug ==
    /\ count_clusters >= 1
    /\ count_clusters <= size_of_data
    /\ get_iterations >= 0
    /\ get_count_ants > 0

\* std::rand() before any std::srand(): seeded as by srand(1).
RandSeed == 1

\* The validation of process: 1 <= K <= objectCount, iterations > 0, antCount > 0.
Valid ==
    /\ count_clusters >= 1
    /\ count_clusters <= size_of_data
    /\ get_iterations > 0
    /\ get_count_ants > 0

Init ==
    /\ hw \in 0 .. MaxHW
    /\ mode = "idle"
    /\ call = [c \in CallIds |-> IdleCall]
    /\ params = [ro |-> 1, pheramone_init |-> 0, iterations |-> 0, count_ants |-> 0]
    /\ count_clusters = 0
    /\ epc = "idle"
    /\ err = "none"
    /\ ph = <<>>
    /\ ants = <<>>
    /\ cur = <<1, 1>>
    /\ iteration = 0
    /\ updates = 0
    /\ best = NoBest
    /\ result = <<>>
    /\ made = "none"
    /\ m_matrix = <<>>
    /\ rand_state = RandSeed
    /\ in_rand = [k \in 0 .. MaxHW |-> -1]

\* ------------------------------------------------- the substrate's actions

Fut(c, k) == call[c].future_storage[k]

\* The calls of the program: parallel_for(p_start, p_end, p_step, p_task) and
\* parallel_for_each(p_begin, p_end, p_task) with a task that returns.
ParallelFor ==
    /\ mode = "idle"
    /\ \E sgn \in BOOLEAN, p_start \in 0 .. MaxStart, p_end \in 0 .. MaxEnd,
          p_step \in 1 .. MaxStep :
          call' = [call EXCEPT ![0] = EnterFor(sgn, "leaf", NoOwner, p_start, p_end, p_step)]
    /\ mode' = "plain"
    /\ UNCHANGED <<hw, evars, dvars, rvars>>

ParallelForEach ==
    /\ mode = "idle"
    /\ \E len \in 0 .. MaxLen :
          call' = [call EXCEPT ![0] = EnterEach("leaf", NoOwner, len)]
    /\ mode' = "plain"
    /\ UNCHANGED <<hw, evars, dvars, rvars>>

\* The same calls with a task that may raise.
ParallelForErr ==
    /\ mode = "idle"
    /\ \E sgn \in BOOLEAN, p_start \in 0 .. MaxStart, p_end \in 0 .. ErrEnd,
          p_step \in 1 .. MaxStep :
          call' = [call EXCEPT ![0] = EnterFor(sgn, "leaf", NoOwner, p_start, p_end, p_step)]
    /\ mode' = "err"
    /\ UNCHANGED <<hw, evars, dvars, rvars>>

ParallelForEachErr ==
    /\ mode = "idle"
    /\ \E len \in 0 .. ErrEnd :
          call' = [call EXCEPT ![0] = EnterEach("leaf", NoOwner, len)]
    /\ mode' = "err"
    /\ UNCHANGED <<hw, evars, dvars, rvars>>

\* A nested loop: the task of the outer call is itself a parallel_for.
ParallelForNested ==
    /\ mode = "idle"
    /\ \E p_end \in 0 .. NestEnd :
          call' = [call EXCEPT ![0] = EnterFor(TRUE, "nest", NoOwner, 0, p_end, 1)]
    /\ mode' = "nest"
    /\ UNCHANGED <<hw, evars, dvars, rvars>>

\* current_start = current_end, parallel.hpp:136 and 230: the next partition
\* starts where the one just dispatched ends.
NextStartBug(r) == r.current_start

NextStart(r) == r.current_end

\* One iteration of the dispatching loop, parallel.hpp:127-138 and 221-232:
\* std::async starts a thread on [current_start, current_end).
Dispatch(c) ==
    LET r == call[c] IN
    /\ r.pc = "dispatch"
    /\ IF r.n < r.amount_threads
       THEN call' = [call EXCEPT ![c] =
               [r EXCEPT !.future_storage[r.n + 1] =
                             [st |-> "running", cs |-> r.current_start,
                              ce |-> r.current_end, i |-> r.current_start],
                         !.current_start = NextStart(r),
                         !.current_end = Wrap(r.sgn, r.current_end + r.interval_step),
                         !.n = r.n + 1]]
       ELSE call' = [call EXCEPT ![c] = [r EXCEPT !.pc = "inline", !.it = r.current_start]]
    /\ UNCHANGED <<hw, mode, evars, dvars, rvars>>

\* One iteration of the loop of a worker's lambda, parallel.hpp:128-132 and
\* 222-226, with a task that returns; the thread ends when the loop does.
WorkerStep(c, k) ==
    LET r == call[c]
        f == Fut(c, k) IN
    /\ r.pc \notin {"idle"}
    /\ k \in 1 .. Len(r.future_storage)
    /\ f.st = "running"
    /\ IF LoopCond(r.kind, f.i, f.ce)
       THEN /\ r.body = "leaf"
            /\ call' = [call EXCEPT ![c] =
                  [r EXCEPT !.cnt = Count(r.cnt, f.i),
                            !.future_storage[k].i = Wrap(r.sgn, f.i + r.p_step)]]
       ELSE call' = [call EXCEPT ![c] = [r EXCEPT !.future_storage[k].st = "ready"]]
    /\ UNCHANGED <<hw, mode, evars, dvars, rvars>>

\* The task raises in a worker: the exception ends the thread and is stored
\* in the shared state of its future.
WorkerThrow(c, k) ==
    LET r == call[c]
        f == Fut(c, k) IN
    /\ mode = "err"
    /\ r.pc \notin {"idle"}
    /\ k \in 1 .. Len(r.future_storage)
    /\ f.st = "running"
    /\ LoopCond(r.kind, f.i, f.ce)
    /\ r.body = "leaf"
    /\ call' = [call EXCEPT ![c] =
          [r EXCEPT !.cnt = Count(r.cnt, f.i),
                    !.future_storage[k].st = "failed",
                    !.raised = Append(r.raised, k)]]
    /\ UNCHANGED <<hw, mode, evars, dvars, rvars>>

\* One iteration of the calling thread's own loop, parallel.hpp:140-142 and
\* 234-236, with a task that returns.
InlineStep(c) ==
    LET r == call[c] IN
    /\ r.pc = "inline"
    /\ IF LoopCond(r.kind, r.it, r.p_end)
       THEN /\ r.body = "leaf"
            /\ call' = [call EXCEPT ![c] =
                  [r EXCEPT !.cnt = Count(r.cnt, r.it),
                            !.inlineLog = Append(r.inlineLog, r.it),
                            !.it = Wrap(r.sgn, r.it + r.p_step)]]
       ELSE call' = [call EXCEPT ![c] = [r EXCEPT !.pc = "join", !.g = 1]]
    /\ UNCHANGED <<hw, mode, evars, dvars, rvars>>

\* The task raises on the calling thread: the exception leaves the function
\* through the destructor of future_storage.
InlineThrow(c) ==
    LET r == call[c] IN
    /\ mode = "err"
    /\ r.pc = "inline"
    /\ LoopCond(r.kind, r.it, r.p_end)
    /\ r.body = "leaf"
    /\ call' = [call EXCEPT ![c] =
          [r EXCEPT !.cnt = Count(r.cnt, r.it),
                    !.inlineLog = Append(r.inlineLog, r.it),
                    !.exc = 0,
                    !.raised = Append(r.raised, 0),
                    !.pc = "unwind"]]
    /\ UNCHANGED <<hw, mode, evars, dvars, rvars>>

\* The order in which the futures are waited for, parallel.hpp:144 and 238.
JoinOrderBug(r) == r.amount_threads + 1 - r.g

JoinOrder(r) == r.g

\* get() blocks while the thread of the future runs.
FutureReadyBug(f) == f.st # "failed"

FutureReady(f) == f.st = "ready"

\* feature.get() of the waiting loop, parallel.hpp:144-146 and 238-240: it
\* blocks until the thread has ended, and returns when its task returned.
Join(c) ==
    LET r == call[c] IN
    /\ r.pc = "join"
    /\ IF r.g > r.amount_threads
       THEN call' = [call EXCEPT ![c] = [r EXCEPT !.pc = "returned"]]
       ELSE /\ FutureReady(r.future_storage[JoinOrder(r)])
            /\ call' = [call EXCEPT ![c] = [r EXCEPT !.g = r.g + 1]]
    /\ UNCHANGED <<hw, mode, evars, dvars, rvars>>

\* feature.get() rethrows the exception stored by the thread.
JoinRethrow(c) ==
    LET r == call[c] IN
    /\ r.pc = "join"
    /\ r.g <= r.amount_threads
    /\ r.future_storage[JoinOrder(r)].st = "failed"
    /\ call' = [call EXCEPT ![c] = [r EXCEPT !.exc = JoinOrder(r), !.pc = "unwind"]]
    /\ UNCHANGED <<hw, mode, evars, dvars, rvars>>

\* ~future of a future that std::async returned blocks until its thread has
\* ended: future_storage (parallel.hpp:125 and 219) is destroyed on the way out.
DestructorsDoneBug(r) == TRUE

DestructorsDone(r) ==
    \A k \in 1 .. Len(r.future_storage) : r.future_storage[k].st \notin {"running", "intask"}

\* The exception leaves the call.
Unwind(c) ==
    LET r == call[c] IN
    /\ r.pc = "unwind"
    /\ DestructorsDone(r)
    /\ call' = [call EXCEPT ![c] = [r EXCEPT !.pc = "thrown"]]
    /\ UNCHANGED <<hw, mode, evars, dvars, rvars>>

\* ---------------------------------------------------------- nested loops

\* The call made by the body of index i of call 0.
InnerId(i) == i + 1

\* Thread k of call c (0: its calling thread) is at an index whose body it
\* is about to run.
AtIndex(c, k) ==
    LET r == call[c] IN
    IF k = 0 THEN r.pc = "inline" /\ LoopCond(r.kind, r.it, r.p_end)
    ELSE /\ r.pc \notin {"idle"}
         /\ k \in 1 .. Len(r.future_storage)
         /\ Fut(c, k).st = "running"
         /\ LoopCond(r.kind, Fut(c, k).i, Fut(c, k).ce)

Index(c, k) == IF k = 0 THEN call[c].it ELSE Fut(c, k).i

\* The body of the outer loop calls parallel_for(0, InnerEnd, 1, leaf) on the
\* thread that runs it.
TaskCall(c, k) ==
    LET r == call[c] IN
    /\ AtIndex(c, k)
    /\ r.body = "nest"
    /\ call' = [call EXCEPT
          ![InnerId(Index(c, k))] = EnterFor(TRUE, "leaf", <<c, k>>, 0, InnerEnd, 1),
          ![c] = IF k = 0 THEN [r EXCEPT !.pc = "intask"]
                 ELSE [r EXCEPT !.future_storage[k].st = "intask"]]
    /\ UNCHANGED <<hw, mode, evars, dvars, rvars>>

\* The inner call has returned: the body of the index is done.
TaskReturn(c, k) ==
    LET r == call[c]
        i == Index(c, k) IN
    /\ r.body = "nest"
    /\ IF k = 0 THEN r.pc = "intask"
       ELSE k \in 1 .. Len(r.future_storage) /\ Fut(c, k).st = "intask"
    /\ call[InnerId(i)].pc = "returned"
    /\ call[InnerId(i)].owner = <<c, k>>
    /\ call' = [call EXCEPT ![c] =
          IF k = 0
          THEN [r EXCEPT !.pc = "inline", !.cnt = Count(r.cnt, i),
                         !.inlineLog = Append(r.inlineLog, i),
                         !.it = Wrap(r.sgn, i + r.p_step)]
          ELSE [r EXCEPT !.cnt = Count(r.cnt, i),
                         !.future_storage[k].st = "running",
                         !.future_storage[k].i = Wrap(r.sgn, i + r.p_step)]]
    /\ UNCHANGED <<hw, mode, evars, dvars, rvars>>

\* ------------------------------------------------- the engine's actions

\* The caller builds the engine on its parameters and calls
\* process(input, count_clusters).
SetParams ==
    /\ mode = "idle"
    /\ epc = "idle"
    /\ \E ro \in 1 .. (RoDen - 1), init \in 0 .. MaxInit, its \in -1 .. MaxIter,
          na \in -1 .. MaxAnts :
          params' = [ro |-> ro, pheramone_init |-> init, iterations |-> its, count_ants |-> na]
    /\ \E k \in 0 .. (size_of_data + 1) : count_clusters' = k
    /\ epc' = "called"
    /\ mode' = "ant"
    /\ UNCHANGED <<hw, call, dvars, rvars, err, ph, ants, cur, iteration, updates, best, result>>

\* process rejects parameters that are not valid before it does anything.
ProcessInvalid ==
    /\ epc = "called"
    /\ ~Valid
    /\ epc' = "failed"
    /\ err' = "InvalidParameter"
    /\ UNCHANGED <<pvars, dvars, rvars, params, count_clusters, ph, ants, cur, iteration, updates, best, result>>

\* INIT: the pheromone matrix and the ants of the run.
ProcessInit ==
    /\ epc = "called"
    /\ Valid
    /\ ph' = pheramone(size_of_data, count_clusters, get_pheramone_init)
    /\ ants' = [a \in 1 .. get_count_ants |-> Ant(size_of_data, count_clusters)]
    /\ cur' = <<1, 1>>
    /\ epc' = "construct"
    /\ UNCHANGED <<pvars, dvars, rvars, params, count_clusters, err, iteration, updates, best, result>>

\* clustering_by_pheramone, one draw: the ant is cleared before its first
\* object, and the object enters the cluster that realize_pheromone draws.
ClusteringByPheramone ==
    /\ epc = "construct"
    /\ LET a == cur[1]
           o == cur[2]
           total == RowTotal(ph, o)
           max == IF total = 0 THEN count_clusters ELSE total
           ant == IF o = 1 THEN clear(ants[a]) ELSE ants[a]
       IN \E c \in {realize_pheromone(ph, o, r) : r \in get_random_number(max)} :
             /\ ants' = [ants EXCEPT ![a] = [ant EXCEPT !.clustering_data[o][c] = TRUE]]
             /\ IF o < size_of_data THEN cur' = <<a, o + 1>> /\ epc' = epc
                ELSE IF a < Len(ants) THEN cur' = <<a + 1, 1>> /\ epc' = epc
                ELSE cur' = <<1, 1>> /\ epc' = "fitness"
    /\ UNCHANGED <<pvars, dvars, rvars, params, count_clusters, err, ph, iteration, updates, best, result>>

\* calculate_F for every ant.
CalculateF ==
    /\ epc = "fitness"
    /\ ants' = [a \in DOMAIN ants |-> calculate_F(ants[a], count_clusters)]
    /\ epc' = "best"
    /\ UNCHANGED <<pvars, dvars, rvars, params, count_clusters, err, ph, cur, iteration, updates, best, result>>

UpdateBestClustering ==
    /\ epc = "best"
    /\ best' = update_best_clustering(ants, best)
    /\ epc' = "pheromone"
    /\ UNCHANGED <<pvars, dvars, rvars, params, count_clusters, err, ph, ants, cur, iteration, updates, result>>

\* The loop of process over the rounds: another round follows the one that
\* ends while fewer than `iterations` are done.
MoreRoundsBug == iteration + 1 <= get_iterations

MoreRounds == iteration + 1 < get_iterations

\* update_pheramone ends the round; after the last one process returns the
\* best clustering (FINALIZE).
UpdatePheramone ==
    /\ epc = "pheromone"
    /\ ph' = update_pheramone(ph, ants)
    /\ updates' = updates + 1
    /\ iteration' = iteration + 1
    /\ IF MoreRounds
       THEN epc' = "construct" /\ result' = result
       ELSE epc' = "done" /\ result' = best.clusters
    /\ UNCHANGED <<pvars, dvars, rvars, params, count_clusters, err, ants, cur, best>>

\* ------------------------------------------- the engine on the substrate

\* std::rand(): one generator for the whole process; a call reads its state
\* and writes the next one, which is the number returned.
rand(s) == (5 * s + 3) % RandMod

\* A call of process whose parameters are valid.
SetParamsPar ==
    /\ mode = "idle"
    /\ epc = "idle"
    /\ \E its \in 1 .. MaxIter, na \in 1 .. MaxAnts :
          params' = [ro |-> 1, pheramone_init |-> MaxInit, iterations |-> its,
                     count_ants |-> na]
    /\ \E k \in 1 .. size_of_data : count_clusters' = k
    /\ epc' = "called"
    /\ mode' = "par"
    /\ UNCHANGED <<hw, call, dvars, rvars, err, ph, ants, cur, iteration, updates, best, result>>

\* clustering_by_pheramone for ant cur[1]: the ant is cleared and the loop
\* over the objects goes through parallel_for.
ConstructCall ==
    /\ mode = "par"
    /\ epc = "construct"
    /\ ants' = [ants EXCEPT ![cur[1]] = clear(ants[cur[1]])]
    /\ call' = [call EXCEPT ![0] = EnterFor(FALSE, "sample", NoOwner, 0, size_of_data, 1)]
    /\ epc' = "sampling"
    /\ UNCHANGED <<hw, mode, dvars, rvars, params, count_clusters, err, ph, cur,
                   iteration, updates, best, result>>

\* The task of the loop over the objects, on thread k, enters std::rand()
\* (get_random_number) and reads the state of the generator.
SampleEnter(k) ==
    /\ mode = "par"
    /\ call[0].body = "sample"
    /\ AtIndex(0, k)
    /\ in_rand[k] = -1
    /\ in_rand' = [in_rand EXCEPT ![k] = rand_state]
    /\ UNCHANGED <<pvars, evars, dvars, rand_state>>

\* std::rand() writes the next state and returns; realize_pheromone turns the
\* number into a cluster of the object and the task ends.
SampleLeave(k) ==
    /\ mode = "par"
    /\ call[0].body = "sample"
    /\ AtIndex(0, k)
    /\ in_rand[k] # -1
    /\ LET r == call[0]
           i == Index(0, k)
           o == i + 1
           total == RowTotal(ph, o)
           max == IF total = 0 THEN count_clusters ELSE total
           v == rand(in_rand[k])
           c == realize_pheromone(ph, o, v % max)
       IN /\ rand_state' = v
          /\ ants' = [ants EXCEPT ![cur[1]].clustering_data[o][c] = TRUE]
          /\ call' = [call EXCEPT ![0] =
                IF k = 0
                THEN [r EXCEPT !.cnt = Count(r.cnt, i),
                               !.inlineLog = Append(r.inlineLog, i),
                               !.it = Wrap(r.sgn, i + r.p_step)]
                ELSE [r EXCEPT !.cnt = Count(r.cnt, i),
                               !.future_storage[k].i = Wrap(r.sgn, i + r.p_step)]]
    /\ in_rand' = [in_rand EXCEPT ![k] = -1]
    /\ UNCHANGED <<hw, mode, dvars, params, count_clusters, epc, err, ph, cur,
                   iteration, updates, best, result>>

\* parallel_for has returned: the next ant, or the fitness of the round.
ConstructReturn ==
    /\ mode = "par"
    /\ epc = "sampling"
    /\ call[0].pc = "returned"
    /\ IF cur[1] < Len(ants)
       THEN cur' = <<cur[1] + 1, 1>> /\ epc' = "construct"
       ELSE cur' = <<1, 1>> /\ epc' = "fitness"
    /\ UNCHANGED <<pvars, dvars, rvars, params, count_clusters, err, ph, ants,
                   iteration, updates, best, result>>

\* calculate_F: the loop over the ants goes through parallel_for.
FitnessCall ==
    /\ mode = "par"
    /\ epc = "fitness"
    /\ call' = [call EXCEPT ![0] = EnterFor(FALSE, "score", NoOwner, 0, Len(ants), 1)]
    /\ epc' = "scoring"
    /\ UNCHANGED <<hw, mode, dvars, rvars, params, count_clusters, err, ph, ants, cur,
                   iteration, updates, best, result>>

\* The task of the loop over the ants, on thread k: the F of ant i + 1.
ScoreTask(k) ==
    /\ mode = "par"
    /\ call[0].body = "score"
    /\ AtIndex(0, k)
    /\ LET r == call[0]
           i == Index(0, k)
       IN /\ ants' = [ants EXCEPT ![i + 1] = calculate_F(ants[i + 1], count_clusters)]
          /\ call' = [call EXCEPT ![0] =
                IF k = 0
                THEN [r EXCEPT !.cnt = Count(r.cnt, i),
                               !.inlineLog = Append(r.inlineLog, i),
                               !.it = Wrap(r.sgn, i + r.p_step)]
                ELSE [r EXCEPT !.cnt = Count(r.cnt, i),
                               !.future_storage[k].i = Wrap(r.sgn, i + r.p_step)]]
    /\ UNCHANGED <<hw, mode, dvars, rvars, params, count_clusters, epc, err, ph, cur,
                   iteration, updates, best, result>>

FitnessReturn ==
    /\ mode = "par"
    /\ epc = "scoring"
    /\ call[0].pc = "returned"
    /\ epc' = "best"
    /\ UNCHANGED <<pvars, dvars, rvars, params, count_clusters, err, ph, ants, cur,
                   iteration, updates, best, result>>

\* ------------------------------------------------------- distance_matrix

\* array_coordinate: a vector of rows, each a vector of distances; nothing in
\* the type makes the rows as long as the vector.
Rows == UNION {[1 .. n -> 0 .. 1] : n \in 0 .. MaxDim}

Matrices == UNION {[1 .. n -> Rows] : n \in 0 .. MaxDim}

\* make_city_distance_matrix(const array_coordinate&): the private constructor
\* copies init_distance into m_matrix.
MakeCityDistanceMatrix ==
    /\ made = "none"
    /\ \E init_distance \in Matrices :
          m_matrix' = init_distance
    /\ made' = "copy"
    /\ UNCHANGED <<pvars, evars, rvars>>

\* make_city_distance_matrix(array_coordinate&&): the private constructor
\* moves init_distance into m_matrix.
MakeCityDistanceMatrixMove ==
    /\ made = "none"
    /\ \E init_distance \in Matrices :
          m_matrix' = init_distance
    /\ made' = "move"
    /\ UNCHANGED <<pvars, evars, rvars>>

\* ---------------------------------------------------------- specifications

\* A task that returns: every interleaving of one call.
Next ==
    \/ ParallelFor
    \/ ParallelForEach
    \/ Dispatch(0)
    \/ \E k \in 1 .. MaxHW : WorkerStep(0, k)
    \/ InlineStep(0)
    \/ Join(0)

Spec == Init /\ [][Next]_vars

\* A task that may raise.
NextErr ==
    \/ ParallelForErr
    \/ ParallelForEachErr
    \/ Dispatch(0)
    \/ \E k \in 1 .. MaxHW : WorkerStep(0, k)
    \/ \E k \in 1 .. MaxHW : WorkerThrow(0, k)
    \/ InlineStep(0)
    \/ InlineThrow(0)
    \/ Join(0)
    \/ JoinRethrow(0)
    \/ Unwind(0)

SpecErr == Init /\ [][NextErr]_vars

\* A nested loop.
NextNested ==
    \/ ParallelForNested
    \/ \E c \in CallIds : Dispatch(c)
    \/ \E c \in CallIds, k \in 1 .. MaxHW : WorkerStep(c, k)
    \/ \E c \in CallIds : InlineStep(c)
    \/ \E c \in CallIds : Join(c)
    \/ \E c \in CallIds, k \in 0 .. MaxHW : TaskCall(c, k)
    \/ \E c \in CallIds, k \in 0 .. MaxHW : TaskReturn(c, k)

SpecNested == Init /\ [][NextNested]_vars

\* The making of a distance_matrix from a matrix.
NextDist ==
    \/ MakeCityDistanceMatrix
    \/ MakeCityDistanceMatrixMove

SpecDist == Init /\ [][NextDist]_vars

\* A run of the engine.
NextAnt ==
    \/ SetParams
    \/ ProcessInvalid
    \/ ProcessInit
    \/ ClusteringByPheramone
    \/ CalculateF
    \/ UpdateBestClustering
    \/ UpdatePheramone

\* A run of the engine whose loops go through parallel_for, for every size
\* of the pool.
NextAntPar ==
    \/ SetParamsPar
    \/ ProcessInit
    \/ ConstructCall
    \/ \E k \in 0 .. MaxHW : SampleEnter(k)
    \/ \E k \in 0 .. MaxHW : SampleLeave(k)
    \/ ConstructReturn
    \/ FitnessCall
    \/ \E k \in 0 .. MaxHW : ScoreTask(k)
    \/ FitnessReturn
    \/ Dispatch(0)
    \/ \E k \in 1 .. MaxHW : WorkerStep(0, k)
    \/ InlineStep(0)
    \/ Join(0)
    \/ UpdateBestClustering
    \/ UpdatePheramone

SpecAntPar == Init /\ [][NextAntPar]_vars

\* The engine is run where the hardware reports one thread: its loops, as
\* modelled here, run on the thread that called process.
InitAnt == Init /\ hw = 1

SpecAnt == InitAnt /\ [][NextAnt]_vars

\* process runs on one thread that is always scheduled: a step of the run
\* that can be taken is taken.
SpecAntFair == SpecAnt /\ WF_vars(NextAnt)

\* ------------------------------------------------------------ the claims

\* The equivalent sequential loop, for (i = p_start; i < p_end; i += p_step),
\* and for (iter = p_begin; iter != p_end; ++iter).
LoopSet(r) == {i \in r.p_start .. (r.p_end - 1) : (i - r.p_start) % r.p_step = 0}

RECURSIVE LoopSeqFrom(_, _, _)
LoopSeqFrom(i, e, step) == IF i < e THEN <<i>> \o LoopSeqFrom(i + step, e, step) ELSE <<>>

LoopSeq(r) == LoopSeqFrom(r.p_start, r.p_end, r.p_step)

IsPrefix(s, t) == Len(s) <= Len(t) /\ \A j \in 1 .. Len(s) : s[j] = t[j]

\* The threads that std::async started and that have not ended.
Running(c) ==
    {k \in 1 .. Len(call[c].future_storage) : Fut(c, k).st \in {"running", "intask"}}

Launched(c) ==
    {k \in 1 .. Len(call[c].future_storage) : Fut(c, k).st # "empty"}

Exited(c) == call[c].pc \in {"returned", "thrown"}

\* C1: for end >= start and step >= 1, parallel_for invokes the task on exactly
\* the indices start, start + step, ... below end, each once: at no time on an
\* index outside that set or twice on one, and on all of them when it returns.
C1_ExactIndexSet ==
    LET r == call[0] IN
    (mode = "plain" /\ r.kind = "for" /\ r.p_end >= r.p_start) =>
        /\ DOMAIN r.cnt \subseteq LoopSet(r)
        /\ \A i \in DOMAIN r.cnt : r.cnt[i] = 1
        /\ r.pc = "returned" => DOMAIN r.cnt = LoopSet(r)

\* C2: parallel_for_each over a sequence of length L invokes the task once on
\* each of its L elements, and no partition boundary or cursor is ever advanced
\* past the end of the sequence.
C2_ForEachExactlyOnce ==
    LET r == call[0] IN
    (mode = "plain" /\ r.kind = "each") =>
        /\ DOMAIN r.cnt \subseteq 0 .. (r.p_end - 1)
        /\ \A i \in DOMAIN r.cnt : r.cnt[i] = 1
        /\ r.pc = "returned" => DOMAIN r.cnt = 0 .. (r.p_end - 1)
        /\ r.current_start <= r.p_end
        /\ r.current_end <= r.p_end
        /\ r.it <= r.p_end
        /\ \A k \in Launched(0) : Fut(0, k).i <= Fut(0, k).ce /\ Fut(0, k).ce <= r.p_end

\* C3: fork-join: a call that has left, by return or by exception, has no
\* worker still running, and every worker it was to dispatch was started.
C3_ForkJoin ==
    \A c \in CallIds :
        Exited(c) => /\ Running(c) = {}
                     /\ Launched(c) = 1 .. call[c].amount_threads

C3_Witness ==
    /\ mode = "err"
    /\ call[0].pc = "returned"
    /\ call[0].amount_threads >= 2

\* The partitions whose task raised (0: the calling thread's), and the worker
\* partitions among them; r.raised lists them in the order in which they raised.
Raised(r) == {r.raised[j] : j \in 1 .. Len(r.raised)}

WorkersRaised(r) == Raised(r) \ {0}

MinOf(S) == CHOOSE x \in S : \A y \in S : x <= y

\* C4 as stated: when only worker partitions raise (in a call over a range
\* that is not empty), the caller receives, after all workers are joined, the
\* error that was raised first.
C4_FirstRaisedWins ==
    LET r == call[0] IN
    (r.pc = "thrown" /\ WorkersRaised(r) # {} /\ 0 \notin Raised(r) /\ r.p_start < r.p_end) =>
        /\ Running(0) = {}
        /\ r.exc = r.raised[1]

\* C4 as amended: the caller receives one error, after all workers are joined:
\* that of its own partition when it raised, and otherwise that of the failed
\* worker partition dispatched first (the lowest position of future_storage),
\* whichever raised first; a call returns only when no partition raised.
C4_LowestPartitionWins ==
    LET r == call[0] IN
    /\ r.pc = "thrown" =>
          /\ Running(0) = {}
          /\ r.raised # <<>>
          /\ r.exc = IF 0 \in Raised(r) THEN 0
                     ELSE MinOf(WorkersRaised(r))
    /\ r.pc = "returned" => r.raised = <<>> /\ r.exc = -1

C4_Witness ==
    /\ call[0].pc = "thrown"
    /\ call[0].p_start < call[0].p_end
    /\ call[0].raised = <<2, 1>>
    /\ call[0].exc = 1

\* C5: with end <= start parallel_for starts no worker and invokes no task.
C5_EmptyRangeNoOp ==
    LET r == call[0] IN
    (mode = "plain" /\ r.kind = "for" /\ r.p_end <= r.p_start) =>
        /\ r.cnt = <<>>
        /\ Launched(0) = {}

\* C6: with a reported hardware parallelism of 0 or 1 no worker is started and
\* the calling thread runs the task on the indices of the sequential loop, in
\* its order, all of them before the call returns.
C6_ZeroWorkersSequential ==
    LET r == call[0] IN
    (mode = "plain" /\ hw <= 1) =>
        /\ r.amount_threads = 0 /\ r.future_storage = <<>>
        /\ IsPrefix(r.inlineLog, LoopSeq(r))
        /\ DOMAIN r.cnt = {r.inlineLog[j] : j \in 1 .. Len(r.inlineLog)}
        /\ \A i \in DOMAIN r.cnt : r.cnt[i] = 1
        /\ r.pc = "returned" => r.inlineLog = LoopSeq(r)

C6_Witness ==
    LET r == call[0] IN
    /\ hw = 1 /\ r.kind = "for" /\ r.pc = "returned"
    /\ r.p_start = 0 /\ r.p_end = 10 /\ r.p_step = 1
    /\ r.inlineLog = <<0, 1, 2, 3, 4, 5, 6, 7, 8, 9>>

\* C7: at every moment at most AMOUNT_THREADS workers are executing, nested
\* calls included.
C7_BoundedWorkers ==
    Cardinality({ck \in CallIds \X (1 .. MaxHW) : ck[2] \in Running(ck[1])})
        <= AMOUNT_THREADS(hw)

\* C8: every entry of the pheromone matrix is >= 0 in every state of a run.
C8_PheromoneNonNegative ==
    \A o \in DOMAIN ph : \A c \in DOMAIN ph[o] : ph[o][c] >= 0

C8_Witness ==
    /\ epc = "done"
    /\ updates = 2
    /\ params.pheramone_init = 0
    /\ \E o \in DOMAIN ph : \E c \in DOMAIN ph[o] : ph[o][c] = 0

\* C9: whenever the ants are scored, compared with the best clustering or used
\* to reinforce the pheromone, every object of every ant is in exactly one
\* cluster.
C9_OneClusterPerObject ==
    epc \in {"fitness", "best", "pheromone"} =>
        \A a \in DOMAIN ants : \A o \in DOMAIN ants[a].clustering_data :
            Cardinality({c \in DOMAIN ants[a].clustering_data[o] :
                            ants[a].clustering_data[o][c]}) = 1

C9_Witness ==
    /\ epc = "fitness"
    /\ iteration = 1
    /\ Len(ants) = 2
    /\ count_clusters = 2
    /\ ants[1].scored

RoundLen == get_count_ants * size_of_data + 3

Rank ==
    CASE epc = "idle" -> 0
      [] epc = "called" -> 1
      [] epc = "failed" -> 2
      [] epc = "construct" ->
            2 + iteration * RoundLen + (cur[1] - 1) * size_of_data + (cur[2] - 1)
      [] epc = "fitness" -> 2 + iteration * RoundLen + (RoundLen - 3)
      [] epc = "best" -> 2 + iteration * RoundLen + (RoundLen - 2)
      [] epc = "pheromone" -> 2 + iteration * RoundLen + (RoundLen - 1)
      [] epc = "done" -> 2 + get_iterations * RoundLen

\* C12: a valid run is INIT, then exactly `iterations` rounds, each one
\* construct, fitness, best, pheromone in this order, then FINALIZE; no step
\* follows FINALIZE, and every valid call reaches FINALIZE and returns: every
\* step moves the run forward (Rank grows and is bounded by the place of
\* FINALIZE), and a run that has not returned can always take a step, so the
\* thread of SpecAntFair arrives at FINALIZE.
C12_RunShape ==
    [][/\ \/ epc = "idle" /\ epc' = "called"
          \/ epc = "called" /\ Valid /\ epc' = "construct" /\ iteration' = 0
          \/ epc = "called" /\ ~Valid /\ epc' = "failed"
          \/ epc = "construct" /\ epc' \in {"construct", "fitness"}
                /\ iteration' = iteration /\ iteration < params.iterations
          \/ epc = "fitness" /\ epc' = "best" /\ iteration' = iteration
          \/ epc = "best" /\ epc' = "pheromone" /\ iteration' = iteration
          \/ epc = "pheromone" /\ iteration' = iteration + 1
                /\ epc' = IF iteration' < params.iterations
                          THEN "construct" ELSE "done"
       /\ Rank' > Rank
       /\ epc' \notin {"called", "failed"} => Rank' <= 2 + (get_iterations * RoundLen)'
       /\ epc' \notin {"done", "failed"} => (ENABLED NextAnt)'
       /\ epc' = "done" =>
            /\ iteration' = params.iterations
            /\ updates' = params.iterations
            /\ result' = best.clusters /\ result' # <<>>]_vars

C12_Witness ==
    /\ epc = "done"
    /\ params.iterations = 2
    /\ iteration = 2
    /\ params.count_ants = 2


\* The call of C13: zero iterations, every other parameter valid.
ZeroIterations ==
    /\ epc \notin {"idle", "called"}
    /\ params.iterations = 0
    /\ params.count_ants > 0
    /\ count_clusters >= 1 /\ count_clusters <= size_of_data

C14_SquareValidated ==
    made # "none" =>
        \A r \in DOMAIN m_matrix : Len(m_matrix[r]) = Len(m_matrix)


\* C18: nothing is cancelled. When the call has left, a worker partition
\* whose task did not raise has run the task on every one of its indices,
\* one whose task raised has run it up to the raising index and skipped only
\* its own later indices, and the same holds for the calling thread's
\* partition, whichever partitions raised.
C18_NoCancellation ==
    LET r == call[0] IN
    (mode = "err" /\ Exited(0)) =>
        /\ \A k \in 1 .. r.amount_threads :
              LET f == Fut(0, k)
                  P == LoopSeqFrom(f.cs, f.ce, r.p_step) IN
              IF k \in Raised(r)
              THEN /\ f.st = "failed"
                   /\ \A j \in 1 .. Len(P) : P[j] \in DOMAIN r.cnt <=> P[j] <= f.i
              ELSE /\ f.st = "ready"
                   /\ \A j \in 1 .. Len(P) : P[j] \in DOMAIN r.cnt
        /\ LET P == LoopSeqFrom(r.current_start, r.p_end, r.p_step) IN
           IF 0 \in Raised(r)
           THEN /\ r.inlineLog # <<>>
                /\ IsPrefix(r.inlineLog, P)
                /\ \A j \in (Len(r.inlineLog) + 1) .. Len(P) : P[j] \notin DOMAIN r.cnt
           ELSE r.inlineLog = P

C18_Witness ==
    LET r == call[0] IN
    /\ mode = "err"
    /\ r.pc = "thrown"
    /\ r.amount_threads = 2
    /\ r.raised = <<1>>
    /\ Fut(0, 2).st = "ready"
    /\ Len(r.inlineLog) = 2

\* C19: for a range that is not empty the calling thread runs the last
\* partition, from current_start up to the end of the range, itself; the
\* partition is not empty, it is started only when every worker partition has
\* been dispatched, and the waiting starts only when it is done.
C19_InlinePartition ==
    LET r == call[0]
        P == LoopSeqFrom(r.current_start, r.p_end, r.p_step) IN
    (mode = "plain" /\ r.p_start < r.p_end) =>
        /\ r.pc = "dispatch" => r.inlineLog = <<>>
        /\ r.pc \in {"dispatch", "inline"} => r.g = 0
        /\ r.pc \in {"inline", "join", "returned"} =>
              /\ r.n = r.amount_threads
              /\ Launched(0) = 1 .. r.amount_threads
              /\ r.current_start < r.p_end
              /\ r.current_start =
                    IF r.amount_threads = 0 THEN r.p_start
                    ELSE Fut(0, r.amount_threads).ce
              /\ IsPrefix(r.inlineLog, P)
        /\ r.pc \in {"join", "returned"} => r.inlineLog = P /\ Len(P) >= 1

C19_Witness ==
    LET r == call[0] IN
    /\ mode = "plain"
    /\ r.pc = "join"
    /\ r.amount_threads = 2
    /\ Len(r.inlineLog) >= 2
    /\ Running(0) # {}

\* C20: when the task raises on the calling thread, the waiting loop is never
\* reached, and still the exception leaves the call only when no worker is
\* running; the workers go on calling the task until then, and none does
\* anything once the call has left.
C20_InlineRaiseJoins ==
    [][LET r == call[0] IN
       (mode = "err" /\ 0 \in Raised(r)) =>
           /\ r.pc \in {"unwind", "thrown"} /\ r.g = 0
           /\ call'[0].pc \in {"unwind", "thrown"} /\ call'[0].g = 0
           /\ call'[0].pc = "thrown" => (Running(0))' = {}
           /\ r.pc = "thrown" => call' = call]_vars

C20_Witness ==
    LET r == call[0] IN
    /\ mode = "err"
    /\ r.pc = "thrown"
    /\ r.exc = 0
    /\ Len(r.raised) >= 2
    /\ r.raised[1] = 0


C16_NoConcurrentRand ==
    mode = "par" => Cardinality({k \in 0 .. MaxHW : in_rand[k] # -1}) <= 1

\* The run of process on one thread: the draws in the order of the loops.
RECURSIVE RefSample(_, _, _, _, _)
RefSample(p, as, a, o, s) ==
    IF a > Len(as) THEN [ants |-> as, s |-> s]
    ELSE LET total == RowTotal(p, o)
             max == IF total = 0 THEN count_clusters ELSE total
             v == rand(s)
             c == realize_pheromone(p, o, v % max)
             ant == IF o = 1 THEN clear(as[a]) ELSE as[a]
             bs == [as EXCEPT ![a] = [ant EXCEPT !.clustering_data[o][c] = TRUE]]
         IN IF o < size_of_data THEN RefSample(p, bs, a, o + 1, v)
            ELSE RefSample(p, bs, a + 1, 1, v)

RefRound(st) ==
    LET sm == RefSample(st.ph, st.ants, 1, 1, st.s)
        scored == [a \in DOMAIN sm.ants |-> calculate_F(sm.ants[a], count_clusters)]
    IN [ph |-> update_pheramone(st.ph, scored), ants |-> scored,
        best |-> update_best_clustering(scored, st.best), s |-> sm.s]

RECURSIVE RefRun(_, _)
RefRun(st, n) == IF n = 0 THEN st ELSE RefRun(RefRound(st), n - 1)

RefResult ==
    RefRun([ph |-> pheramone(size_of_data, count_clusters, get_pheramone_init),
            ants |-> [a \in 1 .. get_count_ants |-> Ant(size_of_data, count_clusters)],
            best |-> NoBest, s |-> RandSeed], get_iterations).best.clusters

\* C17: with the same input, parameters and random sequence every run
\* returns the same clustering, whatever the size of the pool and the
\* interleaving: the one the run on one thread returns.
C17_Deterministic ==
    (mode = "par" /\ epc = "done") => result = RefResult

====
